---- MODULE Spec2Model ----
(***************************************************************************)
(* FitJournal: the FastAPI route layer of src/src/main.py over the schema  *)
(* of src/src/models.py, and the command-line prototype kept (commented    *)
(* out) in the same file: the in-memory exercises_dictionary, the deque    *)
(* user_schedule, suggest_workout_of_the_day and mark_workout_as_complete. *)
(*                                                                         *)
(* Several next-state relations over one set of variables:                 *)
(*   Spec        the HTTP handlers, one request at a time                  *)
(*   SpecConc    register requests interleaved at their database trips     *)
(*   SpecLegacy  the command-line prototype                                *)
(*   SpecCrud    register and the exercise routes, one request at a time   *)
(*   SpecLogin   login under get_db's session, requests overlapping        *)
(*   SpecCycle   the prototype's generate-and-complete cycle, repeated     *)
(*   SpecCount   the exercise routes and that cycle, in any order          *)
(***************************************************************************)
EXTENDS Integers, Sequences, FiniteSets, TLC

VARIABLES
    \* ---- relational store (models.py) ----
    users,              \* rows of table users
    default_exercises,  \* rows of table default_exercises (the catalog)
    exercises,          \* rows of table exercises
    routines,           \* rows of table routine_days
    routine_muscles,    \* rows of table routine_muscles_per_day
    user_seq,           \* AUTO_INCREMENT of users.user_id (last value given)
    exercise_seq,       \* AUTO_INCREMENT of exercises.exercise_id
    routine_seq,        \* AUTO_INCREMENT of routine_days.routine_id
    routine_day_seq,    \* AUTO_INCREMENT of routine_muscles_per_day.routine_day_id
    response,           \* the last HTTP response sent, with its request
    inflight,           \* requests between two of their steps
    sessions,           \* the SessionLocal() sessions open (database.py)
    \* ---- command-line prototype (main.py, 617-1126) ----
    exercises_dictionary,      \* muscle group -> list of Exercise objects
    count,                     \* Exercise.__count of every object created
    name,                      \* Exercise.__name of every object created
    days_in_routine,           \* global days_in_routine
    user_schedule,             \* global deque user_schedule
    unit_of_measure_selected,  \* global unit_of_measure_selected
    today_selected_exercises,  \* global dict: muscle group -> selected objects
    pc,                        \* where the prototype waits for input
    printed                    \* the last status line printed

dbvars == <<users, default_exercises, exercises, routines, routine_muscles,
            user_seq, exercise_seq, routine_seq, routine_day_seq>>
apivars == <<users, default_exercises, exercises, routines, routine_muscles,
             user_seq, exercise_seq, routine_seq, routine_day_seq,
             response, inflight, sessions>>
clivars == <<exercises_dictionary, count, name, days_in_routine, user_schedule,
             unit_of_measure_selected, today_selected_exercises, pc, printed>>
vars == <<users, default_exercises, exercises, routines, routine_muscles,
          user_seq, exercise_seq, routine_seq, routine_day_seq,
          response, inflight, sessions,
          exercises_dictionary, count, name, days_in_routine, user_schedule,
          unit_of_measure_selected, today_selected_exercises, pc, printed>>

(***************************************************************************)
(* Bounds of the model.                                                    *)
(***************************************************************************)
\* users ever registered (cap on users.user_id)
MaxUsers == 2
\* rows of the default-exercise catalog
MaxDefaults == 2
\* custom exercises ever created through POST /exercises
MaxCustom == 1
\* register requests that may be in flight together
MaxInflight == 2

\* days a routine entered in the model may have (the prototype allows 7)
MaxDays == 3
\* cap on Exercise.__count: a workout whose exercises would pass it is not
\* completed in the model
MaxCount == 5

NULL == "NULL"

Emails == {"ann@fit.io", "bob@fit.io"}
Passwords == {"pw1"}
\* user_id values a request may carry: every id the store can hold, held
\* or not at the time of the request
UserIds == 1..MaxUsers

\* ----------------------------------------------------------------------
\* Password hashing
\* ----------------------------------------------------------------------
hash_password(password) == <<"bcrypt", password>>

\* A verification that accepts any password (C13 must fail with it)
verify_anything(plain_password, hashed_password) == TRUE

verify_password(plain_password, hashed_password) ==
    hashed_password = hash_password(plain_password)

\* ----------------------------------------------------------------------
\* The default-exercise catalog
\* ----------------------------------------------------------------------
\* What a catalog row may carry. Nothing in the schema keeps two rows from
\* carrying the same name, group and link.
DefaultContents ==
    << [exercise_name |-> "Row", exercise_muscle_group |-> "Back",
        exercise_link |-> "http://row"],
       [exercise_name |-> "Plank", exercise_muscle_group |-> "Abs",
        exercise_link |-> NULL] >>

\* The catalogs of up to MaxDefaults rows, ids 1..k; the ids are given in
\* the order of DefaultContents
Catalogs ==
    UNION { { { [default_exercise_id |-> i,
                 exercise_name |-> DefaultContents[c[i]].exercise_name,
                 exercise_muscle_group |->
                     DefaultContents[c[i]].exercise_muscle_group,
                 exercise_link |-> DefaultContents[c[i]].exercise_link]
                : i \in 1..k }
              : c \in {f \in [1..k -> 1..Len(DefaultContents)] :
                          \A i \in 1..(k - 1) : f[i] <= f[i + 1]} }
            : k \in 0..MaxDefaults }

\* ----------------------------------------------------------------------
\* Request bodies
\* ----------------------------------------------------------------------
UserCreate == [user_email : Emails, user_password : Passwords]

\* schemas.ExerciseCreate: the optional fields default to None
ExerciseCreate ==
    { [exercise_name |-> "Curl", exercise_muscle_group |-> "Biceps",
       exercise_user_current_weight |-> 20, exercise_link |-> "http://curl",
       comments |-> "slow"],
      [exercise_name |-> "Row", exercise_muscle_group |-> "Back",
       exercise_user_current_weight |-> NULL, exercise_link |-> NULL,
       comments |-> NULL] }

Respond(op, req, status, detail) ==
    response' = [op |-> op, req |-> req, status |-> status, detail |-> detail]

\* ----------------------------------------------------------------------
\* Queries and constraints
\* ----------------------------------------------------------------------
\* A query that never finds a row (C2 must fail with it)
existing_user_none(us, email) == {}

\* db.query(User).filter(User.user_email == email): the matching rows
\* (.first() is None exactly when the set is empty)
existing_user(us, email) == {u \in us : u.user_email = email}

\* users.user_email without its unique constraint (C1 must fail with it)
unique_email_off(us, email) == TRUE

\* user_email = Column(String(100), unique=True): may a row with this
\* email be inserted?
unique_email_ok(us, email) == \A u \in us : u.user_email # email

\* exercises.user_id without its foreign key (C11 must fail with it)
user_fk_off(us, uid) == TRUE

\* ForeignKey('users.user_id'): the referenced user exists
user_fk_ok(us, uid) == \E u \in us : u.user_id = uid

\* models.User(user_email=..., user_password=...) with the column defaults
NewUser(uid, user) ==
    [user_id |-> uid,
     user_email |-> user.user_email,
     user_password |-> hash_password(user.user_password),
     user_is_active |-> TRUE]

\* A row that starts out of the routine and as performed once (C23 must
\* fail with it)
NewExercise_in_use(eid, uid, ename, group, weight, link, comments) ==
    [exercise_id |-> eid,
     exercise_name |-> ename,
     exercise_muscle_group |-> group,
     exercise_user_current_weight |-> weight,
     user_id |-> uid,
     exercise_is_in_routine |-> FALSE,
     exercise_times_performed |-> 1,
     exercise_link |-> link,
     comments |-> comments]

\* models.Exercise(...) with the column defaults of models.py
NewExercise(eid, uid, ename, group, weight, link, comments) ==
    [exercise_id |-> eid,
     exercise_name |-> ename,
     exercise_muscle_group |-> group,
     exercise_user_current_weight |-> weight,
     user_id |-> uid,
     exercise_is_in_routine |-> TRUE,
     exercise_times_performed |-> 0,
     exercise_link |-> link,
     comments |-> comments]

\* The catalog rows in the order .all() yields them, as ranks 1..n
Rank(defs, d) ==
    Cardinality({x \in defs : x.default_exercise_id <= d.default_exercise_id})

\* A copy that leaves exercise_link out (C3 must fail with it)
clone_defaults_nolink(defs, uid, seq) ==
    { NewExercise(seq + Rank(defs, d), uid, d.exercise_name,
                  d.exercise_muscle_group, NULL, NULL, NULL) : d \in defs }

\* register's loop over default_exercises: one Exercise per catalog row
clone_defaults(defs, uid, seq) ==
    { NewExercise(seq + Rank(defs, d), uid, d.exercise_name,
                  d.exercise_muscle_group, NULL, d.exercise_link, NULL)
      : d \in defs }

\* ----------------------------------------------------------------------
\* POST /register
\* ----------------------------------------------------------------------
register(user) ==
    /\ IF existing_user(users, user.user_email) # {}
       THEN /\ Respond("register", user, 400, "Email already registered")
            /\ UNCHANGED dbvars
       ELSE IF ~unique_email_ok(users, user.user_email)
       THEN \* db.commit() raises IntegrityError: nothing is stored
            /\ Respond("register", user, 500, "IntegrityError")
            /\ UNCHANGED dbvars
       ELSE /\ user_seq < MaxUsers
            /\ users' = users \cup {NewUser(user_seq + 1, user)}
            /\ user_seq' = user_seq + 1
            /\ exercises' = exercises \cup
                   clone_defaults(default_exercises, user_seq + 1, exercise_seq)
            /\ exercise_seq' = exercise_seq + Cardinality(default_exercises)
            /\ Respond("register", user, 201, NULL)
            /\ UNCHANGED <<default_exercises, routines, routine_muscles,
                           routine_seq, routine_day_seq>>
    /\ UNCHANGED <<inflight, sessions, clivars>>

\* ----------------------------------------------------------------------
\* POST /exercises
\* ----------------------------------------------------------------------
\* Exercise ids given so far to rows that are no clone of a catalog row:
\* every registration so far took one id per catalog row.
CustomCreated == exercise_seq - user_seq * Cardinality(default_exercises)

create_exercise(exercise, user_id) ==
    /\ IF ~user_fk_ok(users, user_id)
       THEN \* db.commit() raises IntegrityError on the foreign key
            /\ Respond("create_exercise", [user_id |-> user_id], 500,
                       "IntegrityError")
            /\ UNCHANGED dbvars
       ELSE /\ CustomCreated < MaxCustom
            /\ exercises' = exercises \cup
                 {NewExercise(exercise_seq + 1, user_id,
                              exercise.exercise_name,
                              exercise.exercise_muscle_group,
                              exercise.exercise_user_current_weight,
                              exercise.exercise_link,
                              exercise.comments)}
            /\ exercise_seq' = exercise_seq + 1
            /\ Respond("create_exercise", [user_id |-> user_id], 201, NULL)
            /\ UNCHANGED <<users, default_exercises, routines, routine_muscles,
                           user_seq, routine_seq, routine_day_seq>>
    /\ UNCHANGED <<inflight, sessions, clivars>>

\* ----------------------------------------------------------------------
\* PUT /exercises/{exercise_id}
\* ----------------------------------------------------------------------
\* A query by exercise_id alone (C14 must fail with it)
find_exercise_any_owner(exs, exercise_id, user_id) ==
    {e \in exs : e.exercise_id = exercise_id}

\* db.query(Exercise).filter(exercise_id == ..., user_id == ...)
find_exercise(exs, exercise_id, user_id) ==
    {e \in exs : e.exercise_id = exercise_id /\ e.user_id = user_id}

\* An update that also takes the exercise out of the routine (C20 must
\* fail with it)
set_fields_and_reset(e, exercise) ==
    [e EXCEPT !.exercise_name = exercise.exercise_name,
              !.exercise_muscle_group = exercise.exercise_muscle_group,
              !.exercise_user_current_weight =
                  exercise.exercise_user_current_weight,
              !.exercise_link = exercise.exercise_link,
              !.comments = exercise.comments,
              !.exercise_is_in_routine = FALSE]

\* A partial patch of the two optional text fields: one the request
\* leaves null keeps its stored value (C21 must fail with it)
set_fields_given(e, exercise) ==
    [e EXCEPT !.exercise_name = exercise.exercise_name,
              !.exercise_muscle_group = exercise.exercise_muscle_group,
              !.exercise_user_current_weight =
                  exercise.exercise_user_current_weight,
              !.exercise_link =
                  IF exercise.exercise_link = NULL
                  THEN @ ELSE exercise.exercise_link,
              !.comments =
                  IF exercise.comments = NULL THEN @ ELSE exercise.comments]

\* for key, value in exercise.dict().items(): setattr(db_exercise, key, value)
\* exercise.dict() holds all five fields of ExerciseCreate, the omitted
\* optional ones as None
set_fields(e, exercise) ==
    [e EXCEPT !.exercise_name = exercise.exercise_name,
              !.exercise_muscle_group = exercise.exercise_muscle_group,
              !.exercise_user_current_weight =
                  exercise.exercise_user_current_weight,
              !.exercise_link = exercise.exercise_link,
              !.comments = exercise.comments]

update_exercise(exercise_id, exercise, user_id) ==
    /\ LET found == find_exercise(exercises, exercise_id, user_id)
           req == [exercise_id |-> exercise_id, user_id |-> user_id,
                   exercise |-> exercise]
       IN IF found = {}
          THEN /\ Respond("update_exercise", req, 404, "Exercise not found")
               /\ UNCHANGED dbvars
          ELSE LET db_exercise == CHOOSE e \in found : TRUE
               IN /\ exercises' = (exercises \ {db_exercise})
                                    \cup {set_fields(db_exercise, exercise)}
                  /\ Respond("update_exercise", req, 200, NULL)
                  /\ UNCHANGED <<users, default_exercises, routines,
                                 routine_muscles, user_seq, exercise_seq,
                                 routine_seq, routine_day_seq>>
    /\ UNCHANGED <<inflight, sessions, clivars>>

\* ----------------------------------------------------------------------
\* DELETE /exercises/{exercise_id}
\* ----------------------------------------------------------------------
\* A delete that takes every exercise of the row's owner with it (C22 must
\* fail with it)
db_delete_of_owner(exs, rows) ==
    {e \in exs : \A r \in rows : e.user_id # r.user_id}

\* db.delete(exercise); db.commit(): the row found is removed
db_delete(exs, rows) == exs \ rows

delete_exercise(exercise_id, user_id) ==
    /\ LET found == find_exercise(exercises, exercise_id, user_id)
           req == [exercise_id |-> exercise_id, user_id |-> user_id]
       IN IF found = {}
          THEN /\ Respond("delete_exercise", req, 404, "Exercise not found")
               /\ UNCHANGED dbvars
          ELSE /\ exercises' = db_delete(exercises, found)
               /\ Respond("delete_exercise", req, 204, NULL)
               /\ UNCHANGED <<users, default_exercises, routines,
                              routine_muscles, user_seq, exercise_seq,
                              routine_seq, routine_day_seq>>
    /\ UNCHANGED <<inflight, sessions, clivars>>

\* ----------------------------------------------------------------------
\* GET /exercises
\* ----------------------------------------------------------------------
\* A query with no filter (C16 must fail with it)
exercises_of_anyone(exs, user_id) == exs

\* db.query(Exercise).filter(Exercise.user_id == user_id).all()
exercises_of(exs, user_id) == {e \in exs : e.user_id = user_id}

get_exercises(user_id) ==
    /\ response' = [op |-> "get_exercises", req |-> [user_id |-> user_id],
                    status |-> 200, detail |-> NULL,
                    body |-> exercises_of(exercises, user_id)]
    /\ UNCHANGED <<dbvars, inflight, sessions, clivars>>

\* ----------------------------------------------------------------------
\* Routine rows. main.py holds only the placeholder GET /routines; the
\* route that stores a routine is described by the data model alone
\* (Routine: days-per-week; RoutineMusclePerDay: day -> muscle group).
\* ----------------------------------------------------------------------
\* schemas.RoutineSetup, its routine_days flattened to a list of
\* (day_number, muscle_group) pairs
RoutineSetup ==
    { [days_per_week |-> 2,
       routine_days |-> << <<1, "Back">>, <<2, "Abs">> >>] }

\* CheckConstraint('days_per_week >= 1 AND days_per_week <= 7')
check_days_per_week(d) == d >= 1 /\ d <= 7

setup_routine(user_id, setup) ==
    /\ IF ~user_fk_ok(users, user_id)
          \/ ~check_days_per_week(setup.days_per_week)
       THEN /\ Respond("setup_routine", [user_id |-> user_id], 500,
                       "IntegrityError")
            /\ UNCHANGED dbvars
       ELSE /\ \A r \in routines : r.user_id # user_id
            /\ routines' = routines \cup
                 {[routine_id |-> routine_seq + 1, user_id |-> user_id,
                   days_per_week |-> setup.days_per_week]}
            /\ routine_seq' = routine_seq + 1
            /\ routine_muscles' = routine_muscles \cup
                 {[routine_day_id |-> routine_day_seq + i,
                   user_id |-> user_id,
                   day_number |-> setup.routine_days[i][1],
                   muscle_group |-> setup.routine_days[i][2]]
                  : i \in 1..Len(setup.routine_days)}
            /\ routine_day_seq' = routine_day_seq + Len(setup.routine_days)
            /\ Respond("setup_routine", [user_id |-> user_id], 201, NULL)
            /\ UNCHANGED <<users, default_exercises, exercises, user_seq,
                           exercise_seq>>
    /\ UNCHANGED <<inflight, sessions, clivars>>

\* ----------------------------------------------------------------------
\* Deleting a user row: what the schema's cascades remove with it
\* ----------------------------------------------------------------------
\* exercises.user_id without its cascade (C10 must fail with it)
cascade_exercises_none(rows, uid) == rows

\* exercises.user_id: ForeignKey('users.user_id', ondelete='CASCADE'), and
\* User.exercises: cascade="all, delete-orphan"
cascade_exercises(rows, uid) == {r \in rows : r.user_id # uid}

\* routine_days.user_id: ondelete="CASCADE"; User.routines
cascade_routines(rows, uid) == {r \in rows : r.user_id # uid}

\* routine_muscles_per_day.user_id: ondelete="CASCADE"; User.routine_muscles
cascade_routine_muscles(rows, uid) == {r \in rows : r.user_id # uid}

delete_user(user_id) ==
    /\ IF ~user_fk_ok(users, user_id)
       THEN /\ Respond("delete_user", [user_id |-> user_id], 404,
                       "User not found")
            /\ UNCHANGED dbvars
       ELSE /\ users' = {u \in users : u.user_id # user_id}
            /\ exercises' = cascade_exercises(exercises, user_id)
            /\ routines' = cascade_routines(routines, user_id)
            /\ routine_muscles' = cascade_routine_muscles(routine_muscles, user_id)
            /\ Respond("delete_user", [user_id |-> user_id], 204, NULL)
            /\ UNCHANGED <<default_exercises, user_seq, exercise_seq,
                           routine_seq, routine_day_seq>>
    /\ UNCHANGED <<inflight, sessions, clivars>>

(***************************************************************************)
(* The command-line prototype (main.py, lines 617-1126)                    *)
(***************************************************************************)
\* "choose from 1 to 7" (line 947)
MaxDaysPerWeek == 7
\* exercises suggested per muscle group (lines 1067, 1068, 1073)
PicksPerGroup == 3

\* The muscle groups the model follows, two of the eight keys of
\* exercises_dictionary; a routine entered in the model names only these.
MuscleGroups == {"shoulders", "biceps"}

\* exercises_dictionary as written in the source (lines 802-808, 823-828):
\* the object created by the i-th Exercise(...) call below is object i.
InitialExercises ==
    << [name |-> "Lateral raise",       muscle_group |-> "shoulders", count |-> 1],
       [name |-> "Frontal raise",       muscle_group |-> "shoulders", count |-> 1],
       [name |-> "Posterior raise",     muscle_group |-> "shoulders", count |-> 1],
       [name |-> "Shoulder press",      muscle_group |-> "shoulders", count |-> 1],
       [name |-> "Shrugs",              muscle_group |-> "shoulders", count |-> 0],
       [name |-> "Bicep curl machine",  muscle_group |-> "biceps",    count |-> 0],
       [name |-> "Bicep curl cable",    muscle_group |-> "biceps",    count |-> 1],
       [name |-> "Bicep curl dumbbell", muscle_group |-> "biceps",    count |-> 1],
       [name |-> "Ez bar curl",         muscle_group |-> "biceps",    count |-> 1] >>

Range(q) == {q[i] : i \in 1..Len(q)}

Min(a, b) == IF a <= b THEN a ELSE b

\* str.lower() on the names the model uses
lower(str) ==
    CASE str = "Lateral raise" -> "lateral raise"
      [] str = "Frontal raise" -> "frontal raise"
      [] str = "Posterior raise" -> "posterior raise"
      [] str = "Shoulder press" -> "shoulder press"
      [] str = "Shrugs" -> "shrugs"
      [] str = "SHRUGS" -> "shrugs"
      [] str = "Bicep curl machine" -> "bicep curl machine"
      [] str = "Bicep curl cable" -> "bicep curl cable"
      [] str = "Bicep curl dumbbell" -> "bicep curl dumbbell"
      [] str = "Ez bar curl" -> "ez bar curl"
      [] str = "EZ BAR CURL" -> "ez bar curl"
      [] OTHER -> str

\* printed keeps the last line printed when it is mark_workout_as_complete's
\* "Workout marked as complete."; any other line is kept as OtherLine.
OtherLine == "..."

\* ---- account menu: get_unit_of_measure ----
get_unit_of_measure(unit_of_measure) ==
    /\ pc = "menu"
    /\ unit_of_measure \in {"kilograms", "pounds"}   \* valid_units
    /\ unit_of_measure_selected' = unit_of_measure
    /\ printed' = OtherLine
    /\ UNCHANGED <<exercises_dictionary, count, name, days_in_routine,
                   user_schedule, today_selected_exercises, pc, apivars>>

\* ---- exercises menu: delete_exercise ----
cli_delete_exercise(muscle_group, exercise_name) ==
    /\ pc = "menu"
    /\ lower(muscle_group) \in DOMAIN exercises_dictionary
    /\ LET exs == exercises_dictionary[lower(muscle_group)]
           hits == {i \in 1..Len(exs) :
                       lower(name[exs[i]]) = lower(exercise_name)}
       IN IF hits = {}
          THEN /\ printed' = OtherLine
               /\ UNCHANGED exercises_dictionary
          ELSE IF Len(exs) = 1
          THEN /\ printed' = OtherLine
               /\ UNCHANGED exercises_dictionary
          ELSE LET first == CHOOSE i \in hits : \A j \in hits : i <= j
               IN /\ exercises_dictionary' =
                        [exercises_dictionary EXCEPT
                            ![lower(muscle_group)] =
                                SubSeq(exs, 1, first - 1)
                                    \o SubSeq(exs, first + 1, Len(exs))]
                  /\ printed' = OtherLine
    /\ UNCHANGED <<count, name, days_in_routine, user_schedule,
                   unit_of_measure_selected, today_selected_exercises, pc,
                   apivars>>

\* ---- routine menu, option 2: get_days_of_training_for_routine, then
\* ---- get_muscle_groups_per_day_for_routine
\* A range check that lets 8 through (C5 must fail with it)
valid_days_upto8(days_selected) ==
    1 <= days_selected /\ days_selected <= MaxDaysPerWeek + 1

\* if 1 <= days_selected <= 7 (any other answer is asked again)
valid_days(days_selected) ==
    1 <= days_selected /\ days_selected <= MaxDaysPerWeek

\* The answers to "How many days per week": the valid ones up to MaxDays,
\* and 0 and 8
DaysInputs == (0..MaxDays) \cup {MaxDaysPerWeek + 1}

\* What is entered for the days of a routine in the model: one or more of
\* the groups for each day, no duplicates (kept as a set: the order entered
\* shows only in the printout); the two entries alternate, either first.
DayEntries == << {"biceps"}, {"shoulders", "biceps"} >>

ScheduleInputs(days_selected) ==
    { [i \in 1..days_selected |-> DayEntries[((i + first) % 2) + 1]]
        : first \in 0..1 }

\* temp_schedule after the loop "for i in range(1, days_in_routine + 1)":
\* the i-th entry is what was entered under "Day i". The deque holds the
\* groups alone; the model keeps i beside them to tell which day of the
\* routine an entry is once the deque has been rotated.
set_routine(days_selected, selected_groups) ==
    /\ pc = "menu"
    /\ valid_days(days_selected)
    /\ days_in_routine' = days_selected
    /\ user_schedule' = [i \in 1..days_selected |->
                            [day |-> i, groups |-> selected_groups[i]]]
    /\ printed' = OtherLine
    /\ UNCHANGED <<exercises_dictionary, count, name,
                   unit_of_measure_selected, today_selected_exercises, pc,
                   apivars>>

\* ---- main menu, option 4: suggest_workout_of_the_day ----
\* The list left in dictionary order (C6 must fail with it)
sorted_unsorted(exs) == exs

\* sorted(exercises, key=lambda e: e.get_count()): a stable sort
sorted_by_count(exs) ==
    LET n == Len(exs)
        rank(i) == Cardinality({j \in 1..n :
                       \/ count[exs[j]] < count[exs[i]]
                       \/ /\ count[exs[j]] = count[exs[i]]
                          /\ j <= i})
    IN [k \in 1..n |-> exs[CHOOSE i \in 1..n : rank(i) = k]]

\* The lists selected_exercises may end as, for one muscle group, as sets
SelectionsFor(group) ==
    LET sorted_exercises == sorted_by_count(exercises_dictionary[group])
        min_count == count[sorted_exercises[1]]
        lowest_exercises ==
            SelectSeq(sorted_exercises, LAMBDA e : count[e] = min_count)
    IN IF Len(lowest_exercises) >= PicksPerGroup
       THEN \* random.sample(lowest_exercises, 3)
            {S \in SUBSET Range(lowest_exercises) :
                Cardinality(S) = PicksPerGroup}
       ELSE \* the lowest ones, then sorted_exercises from next_index on
            {Range(lowest_exercises) \cup
                {sorted_exercises[k] :
                    k \in (Len(lowest_exercises) + 1)
                            ..Min(PicksPerGroup, Len(sorted_exercises))}}

\* What today_selected_exercises may hold once the loop over the day's
\* groups has stored a selection for each group of `groups`, from `start`
RECURSIVE Stored(_, _)
Stored(start, groups) ==
    IF groups = {} THEN {start}
    ELSE LET group == CHOOSE g \in groups : TRUE
         IN { [g \in (DOMAIN before) \cup {group} |->
                  IF g = group THEN selected_exercises ELSE before[g]]
              : before \in Stored(start, groups \ {group}),
                selected_exercises \in SelectionsFor(group) }

\* The dict not reset (C7 must fail with it)
kept_selection(selection) == selection

\* today_selected_exercises = {} (line 1028)
cleared_selection(selection) == [g \in {} |-> {}]

\* A generation that also moves on to the next day (C19 must fail with it)
suggest_and_advance ==
    /\ pc = "menu"
    /\ pc' = "mark"
    /\ today_selected_exercises' = cleared_selection(today_selected_exercises)
    /\ user_schedule' = IF user_schedule = <<>> THEN <<>>
                        ELSE Tail(user_schedule) \o <<Head(user_schedule)>>
    /\ printed' = OtherLine
    /\ UNCHANGED <<exercises_dictionary, count, name, days_in_routine,
                   unit_of_measure_selected, apivars>>

suggest_workout_of_the_day ==
    /\ pc = "menu"
    /\ pc' = "mark"
    /\ LET start == cleared_selection(today_selected_exercises)
       IN IF unit_of_measure_selected = NULL
          THEN /\ today_selected_exercises' = start
               /\ printed' = OtherLine
          ELSE IF user_schedule = <<>>
          THEN /\ today_selected_exercises' = start
               /\ printed' = OtherLine
          ELSE LET muscle_groups == user_schedule[1].groups
                   stored == {g \in muscle_groups :
                                 /\ g \in DOMAIN exercises_dictionary
                                 /\ exercises_dictionary[g] # <<>>}
               IN /\ today_selected_exercises' \in Stored(start, stored)
                  /\ printed' = OtherLine
    /\ UNCHANGED <<exercises_dictionary, count, name, days_in_routine,
                   user_schedule, unit_of_measure_selected, apivars>>

\* ---- main menu, option 4, next: mark_workout_as_complete ----
\* A count raised by 2 (C8 must fail with it)
increment_count_twice(c) == c + 2

\* Exercise.increment_count
\* A count left as it is (C18 must fail with it)
increment_count_never(c) == c

increment_count(c) == c + 1

\* deque.rotate(1), the other direction (C4 must fail with it)
rotate_right(q) ==
    IF q = <<>> THEN q ELSE <<q[Len(q)]>> \o SubSeq(q, 1, Len(q) - 1)

\* deque.rotate(-1)
rotate_left(q) == IF q = <<>> THEN q ELSE Tail(q) \o <<Head(q)>>

\* today_muscle_groups = user_schedule[0] on an empty deque: IndexError,
\* which no handler catches
mark_index_error ==
    /\ pc = "mark"
    /\ user_schedule = <<>>
    /\ pc' = "crashed"
    /\ printed' = OtherLine
    /\ UNCHANGED <<exercises_dictionary, count, name, days_in_routine,
                   user_schedule, unit_of_measure_selected,
                   today_selected_exercises, apivars>>

\* The objects the loops of lines 1107-1110 reach, each as often as reached
TimesReached(e) ==
    Cardinality({g \in user_schedule[1].groups :
                    /\ g \in DOMAIN today_selected_exercises
                    /\ e \in today_selected_exercises[g]})

\* answer 1: "Yes"
mark_yes ==
    /\ pc = "mark"
    /\ user_schedule # <<>>
    /\ \A e \in DOMAIN count : TimesReached(e) > 0 => count[e] < MaxCount
    /\ count' = [e \in DOMAIN count |->
                    IF TimesReached(e) = 0 THEN count[e]
                    ELSE IF TimesReached(e) = 1 THEN increment_count(count[e])
                    ELSE increment_count(increment_count(count[e]))]
    /\ user_schedule' = rotate_left(user_schedule)
    /\ printed' = "Workout marked as complete."
    /\ pc' = "menu"
    /\ UNCHANGED <<exercises_dictionary, name, days_in_routine,
                   unit_of_measure_selected, today_selected_exercises,
                   apivars>>

\* answer 2: "No", on to continue_with_another_action and the main menu
mark_no ==
    /\ pc = "mark"
    /\ user_schedule # <<>>
    /\ printed' = OtherLine
    /\ pc' = "menu"
    /\ UNCHANGED <<exercises_dictionary, count, name, days_in_routine,
                   user_schedule, unit_of_measure_selected,
                   today_selected_exercises, apivars>>

\* ----------------------------------------------------------------------
\* Initial states
\* ----------------------------------------------------------------------
InitApi ==
    /\ users = {}
    /\ default_exercises \in Catalogs
    /\ exercises = {}
    /\ routines = {}
    /\ routine_muscles = {}
    /\ user_seq = 0
    /\ exercise_seq = 0
    /\ routine_seq = 0
    /\ routine_day_seq = 0
    /\ response = [op |-> "none", req |-> NULL, status |-> 0, detail |-> NULL]
    /\ inflight = {}
    /\ sessions = {}

InitCli ==
    /\ exercises_dictionary =
           [g \in MuscleGroups |->
               SelectSeq([i \in 1..Len(InitialExercises) |-> i],
                         LAMBDA i : InitialExercises[i].muscle_group = g)]
    /\ count = [i \in 1..Len(InitialExercises) |-> InitialExercises[i].count]
    /\ name = [i \in 1..Len(InitialExercises) |-> InitialExercises[i].name]
    /\ days_in_routine = 0
    /\ user_schedule = <<>>
    /\ unit_of_measure_selected = NULL
    /\ today_selected_exercises = [g \in {} |-> {}]
    /\ pc = "menu"
    /\ printed = NULL

Init == InitApi /\ InitCli

\* The prototype runs without the store: its tables stay empty
InitLegacy == InitApi /\ InitCli /\ default_exercises = {}

\* ----------------------------------------------------------------------
\* The HTTP handlers, one request at a time
\* ----------------------------------------------------------------------
Next ==
    \/ \E user \in UserCreate : register(user)
    \/ \E exercise \in ExerciseCreate, user_id \in UserIds :
           create_exercise(exercise, user_id)
    \/ \E user_id \in UserIds, setup \in RoutineSetup :
           setup_routine(user_id, setup)
    \/ \E user_id \in UserIds : delete_user(user_id)

Spec == Init /\ [][Next]_vars

\* ----------------------------------------------------------------------
\* The command-line prototype's menus
\* ----------------------------------------------------------------------
\* What is typed as an exercise name, and as a unit of measure
NameInputs == {"EZ BAR CURL", "Bicep curl cable"}

UnitInputs == {"pounds", "stones"}

NextLegacy ==
    \/ \E unit \in UnitInputs : get_unit_of_measure(unit)
    \/ \E g \in MuscleGroups, n \in NameInputs : cli_delete_exercise(g, n)
    \/ \E d \in DaysInputs :
          /\ valid_days(d)
          /\ \E sel \in ScheduleInputs(d) : set_routine(d, sel)
    \/ suggest_workout_of_the_day
    \/ mark_index_error
    \/ mark_yes
    \/ mark_no

SpecLegacy == InitLegacy /\ [][NextLegacy]_vars

\* ----------------------------------------------------------------------
\* The prototype used day after day: main menu option 4, answered 1
\* ("Yes"), again and again, on a routine and an exercise set entered
\* before (unit of measure chosen, some exercises deleted, routine set)
\* ----------------------------------------------------------------------
\* exercises_dictionary after the exercises named in `names` were deleted
DictionaryWithout(names) ==
    [g \in MuscleGroups |->
        SelectSeq([i \in 1..Len(InitialExercises) |-> i],
                  LAMBDA i : /\ InitialExercises[i].muscle_group = g
                             /\ lower(InitialExercises[i].name) \notin names)]

InitCycle ==
    /\ InitApi
    /\ default_exercises = {}
    /\ \E deleted \in SUBSET {lower(n) : n \in NameInputs} :
           exercises_dictionary = DictionaryWithout(deleted)
    /\ count = [i \in 1..Len(InitialExercises) |-> InitialExercises[i].count]
    /\ name = [i \in 1..Len(InitialExercises) |-> InitialExercises[i].name]
    /\ days_in_routine \in 1..MaxDays
    /\ \E sel \in ScheduleInputs(days_in_routine) :
           user_schedule = [i \in 1..days_in_routine |->
                               [day |-> i, groups |-> sel[i]]]
    /\ unit_of_measure_selected = "pounds"
    /\ today_selected_exercises = [g \in {} |-> {}]
    /\ pc = "menu"
    /\ printed = OtherLine

NextCycle ==
    \/ suggest_workout_of_the_day
    \/ mark_yes

\* The user goes on choosing option 4 and answering 1
FairCycle == WF_vars(suggest_workout_of_the_day) /\ WF_vars(mark_yes)

SpecCycle == InitCycle /\ [][NextCycle]_vars /\ FairCycle

\* ----------------------------------------------------------------------
\* The exercise routes with register, one request at a time
\* ----------------------------------------------------------------------
\* exercise_id values a request may carry: every id given so far and the
\* next one
ExerciseIds == 1..(exercise_seq + 1)

NextCrud ==
    \/ \E user \in UserCreate : register(user)
    \/ \E exercise \in ExerciseCreate, user_id \in UserIds :
           create_exercise(exercise, user_id)
    \/ \E exercise_id \in ExerciseIds, exercise \in ExerciseCreate,
          user_id \in UserIds :
           update_exercise(exercise_id, exercise, user_id)
    \/ \E exercise_id \in ExerciseIds, user_id \in UserIds :
           delete_exercise(exercise_id, user_id)
    \/ \E user_id \in UserIds : get_exercises(user_id)

\* The catalog holds one row at most here
InitCrud == Init /\ Cardinality(default_exercises) <= 1

SpecCrud == InitCrud /\ [][NextCrud]_vars

\* ----------------------------------------------------------------------
\* Every operation of src that creates, rewrites, deletes or counts an
\* exercise, in any order: register and the exercise routes over the stored
\* rows, generation and completion over the prototype's Exercise objects
\* ----------------------------------------------------------------------
\* An empty catalog, and the prototype with "pounds" chosen and a routine
\* of one day for "biceps"
InitCount ==
    /\ InitApi
    /\ default_exercises = {}
    /\ exercises_dictionary = DictionaryWithout({})
    /\ count = [i \in 1..Len(InitialExercises) |-> InitialExercises[i].count]
    /\ name = [i \in 1..Len(InitialExercises) |-> InitialExercises[i].name]
    /\ days_in_routine = 1
    /\ user_schedule = <<[day |-> 1, groups |-> {"biceps"}]>>
    /\ unit_of_measure_selected = "pounds"
    /\ today_selected_exercises = [g \in {} |-> {}]
    /\ pc = "menu"
    /\ printed = OtherLine

NextCount ==
    \/ \E user \in UserCreate : register(user)
    \/ \E exercise \in ExerciseCreate, user_id \in UserIds :
           create_exercise(exercise, user_id)
    \/ \E exercise_id \in ExerciseIds, exercise \in ExerciseCreate,
          user_id \in UserIds :
           update_exercise(exercise_id, exercise, user_id)
    \/ \E exercise_id \in ExerciseIds, user_id \in UserIds :
           delete_exercise(exercise_id, user_id)
    \/ suggest_workout_of_the_day
    \/ mark_yes

SpecCount == InitCount /\ [][NextCount]_vars

\* ----------------------------------------------------------------------
\* POST /register, interleaved: the handler runs in a worker thread with a
\* session of its own, and other requests run between its database trips
\* (the SELECT of line 65, the INSERT and COMMIT of lines 76-77, the
\* SELECT, INSERTs and COMMIT of lines 81-91).
\* ----------------------------------------------------------------------
reg_query(rid, user) ==
    /\ \A r \in inflight : r.rid # rid
    /\ IF existing_user(users, user.user_email) # {}
       THEN /\ Respond("register", user, 400, "Email already registered")
            /\ UNCHANGED inflight
       ELSE /\ inflight' = inflight \cup
                 {[rid |-> rid, user |-> user, stage |-> "checked",
                   user_id |-> 0]}
            /\ UNCHANGED response
    /\ UNCHANGED <<dbvars, sessions, clivars>>

reg_insert_user(r) ==
    /\ r.stage = "checked"
    /\ IF ~unique_email_ok(users, r.user.user_email)
       THEN \* db.commit() raises IntegrityError: the request ends
            /\ Respond("register", r.user, 500, "IntegrityError")
            /\ inflight' = inflight \ {r}
            /\ UNCHANGED dbvars
       ELSE /\ user_seq < MaxUsers
            /\ users' = users \cup {NewUser(user_seq + 1, r.user)}
            /\ user_seq' = user_seq + 1
            /\ inflight' = (inflight \ {r}) \cup
                 {[r EXCEPT !.stage = "inserted", !.user_id = user_seq + 1]}
            /\ UNCHANGED <<response, default_exercises, exercises, routines,
                           routine_muscles, exercise_seq, routine_seq,
                           routine_day_seq>>
    /\ UNCHANGED <<sessions, clivars>>

reg_clone(r) ==
    /\ r.stage = "inserted"
    /\ exercises' = exercises \cup
           clone_defaults(default_exercises, r.user_id, exercise_seq)
    /\ exercise_seq' = exercise_seq + Cardinality(default_exercises)
    /\ inflight' = inflight \ {r}
    /\ Respond("register", r.user, 201, NULL)
    /\ UNCHANGED <<users, default_exercises, routines, routine_muscles,
                   user_seq, routine_seq, routine_day_seq, sessions,
                   clivars>>

NextConc ==
    \/ \E rid \in 1..MaxInflight, user \in UserCreate : reg_query(rid, user)
    \/ \E r \in inflight : reg_insert_user(r)
    \/ \E r \in inflight : reg_clone(r)

SpecConc == Init /\ [][NextConc]_vars

\* ----------------------------------------------------------------------
\* POST /login under get_db: the session is opened before the handler
\* runs and closed after it has returned or raised
\* ----------------------------------------------------------------------
\* schemas.UserLogin: a stored password or another one
UserLogin == [user_email : Emails, user_password : Passwords \cup {"pw2"}]

\* The users tables the service may start on: one row at most per email,
\* its password one of Passwords, user_is_active either way (the column is
\* in the schema; no route of main.py writes it)
StoredUsers ==
    LET id == CHOOSE f \in [Emails -> 1..Cardinality(Emails)] :
                  \A a \in Emails : \A b \in Emails : f[a] = f[b] => a = b
    IN { { [NewUser(id[m], [user_email |-> m, user_password |-> held[m][1]])
               EXCEPT !.user_is_active = held[m][2]]
           : m \in {x \in Emails : held[x] # NULL} }
         : held \in [Emails -> {NULL} \cup (Passwords \X BOOLEAN)] }

\* db = SessionLocal(); yield db
get_db_open(rid, user) ==
    /\ \A r \in inflight : r.rid # rid
    /\ rid \notin sessions
    /\ sessions' = sessions \cup {rid}
    /\ inflight' = inflight \cup
           {[rid |-> rid, user |-> user, stage |-> "opened", user_id |-> 0]}
    /\ UNCHANGED <<dbvars, response, clivars>>

login(r) ==
    /\ r.stage = "opened"
    /\ LET found == existing_user(users, r.user.user_email)
       IN IF \/ found = {}
             \/ \A db_user \in found :
                    ~verify_password(r.user.user_password,
                                     db_user.user_password)
          THEN /\ Respond("login", r.user, 401, "Invalid email or password")
               /\ inflight' = (inflight \ {r})
                                 \cup {[r EXCEPT !.stage = "raised"]}
          ELSE LET db_user == CHOOSE u \in found : TRUE
               IN IF ~db_user.user_is_active
                  THEN /\ Respond("login", r.user, 403, "Account is inactive")
                       /\ inflight' = (inflight \ {r})
                                         \cup {[r EXCEPT !.stage = "raised"]}
                  ELSE /\ response' =
                            [op |-> "login", req |-> r.user, status |-> 200,
                             detail |-> NULL,
                             body |-> [message |-> "Login successful",
                                       user_id |-> db_user.user_id,
                                       user_email |-> db_user.user_email]]
                       /\ inflight' = (inflight \ {r})
                                         \cup {[r EXCEPT !.stage = "returned"]}
    /\ UNCHANGED <<dbvars, sessions, clivars>>

\* A close that is skipped when the handler raised (C15 must fail with it)
close_unless_raised(open, sid, stage) ==
    IF stage = "raised" THEN open ELSE open \ {sid}

\* finally: db.close(), whichever way the handler ended
finally_close(open, sid, stage) == open \ {sid}

get_db_close(r) ==
    /\ r.stage \in {"returned", "raised"}
    /\ sessions' = finally_close(sessions, r.rid, r.stage)
    /\ inflight' = inflight \ {r}
    /\ UNCHANGED <<dbvars, response, clivars>>

InitLogin ==
    /\ users \in StoredUsers
    /\ default_exercises = {}
    /\ exercises = {}
    /\ routines = {}
    /\ routine_muscles = {}
    /\ user_seq = Cardinality(users)
    /\ exercise_seq = 0
    /\ routine_seq = 0
    /\ routine_day_seq = 0
    /\ response = [op |-> "none", req |-> NULL, status |-> 0, detail |-> NULL]
    /\ inflight = {}
    /\ sessions = {}
    /\ InitCli

NextLogin ==
    \/ \E rid \in 1..MaxInflight, user \in UserLogin : get_db_open(rid, user)
    \/ \E r \in inflight : login(r)
    \/ \E r \in inflight : get_db_close(r)

\* A request whose session is open is run, and the generator is resumed
\* (its finally clause run) once the handler has ended
FairLogin ==
    \A rid \in 1..MaxInflight :
        /\ WF_vars(\E r \in inflight : r.rid = rid /\ login(r))
        /\ WF_vars(\E r \in inflight : r.rid = rid /\ get_db_close(r))

SpecLogin == InitLogin /\ [][NextLogin]_vars /\ FairLogin

(***************************************************************************)
(* Claims about the HTTP handlers                                          *)
(***************************************************************************)

\* C1: after any register requests, repeated emails and overlapping
\* requests included, no two rows of users carry the same user_email.
C1_EmailUnique ==
    \A u1 \in users : \A u2 \in users :
        u1.user_email = u2.user_email => u1 = u2

\* C1's case: two users are stored and a register request for a stored
\* email, which had passed the existence check, was refused at its INSERT.
C1_Witness ==
    /\ response.op = "register"
    /\ response.status = 500
    /\ Cardinality(users) = 2
    /\ \E u \in users : u.user_email = response.req.user_email

\* C2: a register request whose email is already stored is answered 400
\* 'Email already registered' and leaves every table as it was.
C2_DuplicateRegisterRejected ==
    [][ ( /\ response'.op = "register"
          /\ \E u \in users : u.user_email = response'.req.user_email )
        => ( /\ response'.status = 400
             /\ response'.detail = "Email already registered"
             /\ users' = users
             /\ exercises' = exercises
             /\ UNCHANGED dbvars ) ]_vars

\* C2's case: a register request was just refused with 400 while users and
\* exercises were stored.
C2_Witness ==
    /\ response.op = "register"
    /\ response.status = 400
    /\ users # {}
    /\ exercises # {}

\* The exercises of user uid that carry name, group and link of catalog row d
ClonesOf(uid, d) ==
    {e \in exercises : /\ e.user_id = uid
                       /\ e.exercise_name = d.exercise_name
                       /\ e.exercise_muscle_group = d.exercise_muscle_group
                       /\ e.exercise_link = d.exercise_link}

\* The catalog rows that carry the same name, group and link as d
RowsLike(d) ==
    {x \in default_exercises :
        /\ x.exercise_name = d.exercise_name
        /\ x.exercise_muscle_group = d.exercise_muscle_group
        /\ x.exercise_link = d.exercise_link}

\* C3: right after a successful register, the new user's exercises are one
\* clone per catalog row (as many clones of a name, group and link as the
\* catalog has rows carrying them), and the user has no other exercise.
C3_RegisterClonesCatalog ==
    (response.op = "register" /\ response.status = 201) =>
        \E u \in users :
            /\ u.user_email = response.req.user_email
            /\ \A d \in default_exercises :
                   Cardinality(ClonesOf(u.user_id, d)) = Cardinality(RowsLike(d))
            /\ Cardinality({e \in exercises : e.user_id = u.user_id})
                   = Cardinality(default_exercises)

\* C3's case: a register just succeeded over a catalog of two rows, one of
\* them with a link, while another user's exercises are stored.
C3_Witness ==
    /\ response.op = "register"
    /\ response.status = 201
    /\ Cardinality(default_exercises) = 2
    /\ \E d \in default_exercises : d.exercise_link # NULL
    /\ \E u \in users : \E e \in exercises :
           u.user_email = response.req.user_email /\ e.user_id # u.user_id

\* C10: deleting a user leaves no exercise, routine or routine-muscle row
\* of that user, removes that user row alone, and leaves the rows of the
\* other users as they were.
C10_CascadeDelete ==
    [][ (response'.op = "delete_user" /\ response'.status = 204) =>
          LET uid == response'.req.user_id
          IN /\ \A e \in exercises' : e.user_id # uid
             /\ \A r \in routines' : r.user_id # uid
             /\ \A m \in routine_muscles' : m.user_id # uid
             /\ users' = {u \in users : u.user_id # uid}
             /\ exercises' = {e \in exercises : e.user_id # uid}
             /\ routines' = {r \in routines : r.user_id # uid}
             /\ routine_muscles' = {m \in routine_muscles : m.user_id # uid}
      ]_vars

\* C10's case: a user was just deleted, rows of that user's went with it
\* (fewer rows are stored than ids were given), and another user's
\* exercises, routine and routine-muscle rows are still stored.
C10_Witness ==
    /\ response.op = "delete_user"
    /\ response.status = 204
    /\ users # {}
    /\ exercises # {} /\ Cardinality(exercises) < exercise_seq
    /\ routines # {} /\ Cardinality(routines) < routine_seq
    /\ routine_muscles # {} /\ Cardinality(routine_muscles) < routine_day_seq

\* C11: after any register, create_exercise, update_exercise and
\* delete_exercise requests, create_exercise with any user_id included,
\* every stored exercise's user_id is the user_id of a stored user.
C11_ExerciseOwnerExists ==
    \A e \in exercises : \E u \in users : u.user_id = e.user_id

\* C11's case: a create_exercise for a user_id no user holds has just been
\* refused, while a user holds an exercise created through create_exercise.
C11_Witness ==
    /\ response.op = "create_exercise"
    /\ response.status = 500
    /\ \A u \in users : u.user_id # response.req.user_id
    /\ \E e \in exercises : e.comments = "slow"

\* C14: an update_exercise or delete_exercise whose exercise_id and user_id
\* match no stored exercise together (no such exercise, or one of another
\* user) is answered 404 'Exercise not found' and leaves every exercise row
\* as it was.
C14_OwnershipChecked ==
    [][ ( /\ response'.op \in {"update_exercise", "delete_exercise"}
          /\ ~ \E e \in exercises :
                  /\ e.exercise_id = response'.req.exercise_id
                  /\ e.user_id = response'.req.user_id )
        => ( /\ response'.status = 404
             /\ response'.detail = "Exercise not found"
             /\ exercises' = exercises ) ]_vars

\* C14's case: a stored user has just asked to delete an exercise that
\* another user owns, and was answered 404.
C14_Witness ==
    /\ response.op = "delete_exercise"
    /\ response.status = 404
    /\ \E u \in users : u.user_id = response.req.user_id
    /\ \E e \in exercises :
           /\ e.exercise_id = response.req.exercise_id
           /\ e.user_id # response.req.user_id

\* C16: what get_exercises(user_id) returns is the set of the stored
\* exercises whose user_id is the requested one: none of another user, and
\* none of the user's own missing.
C16_GetExercisesOwnOnly ==
    response.op = "get_exercises" =>
        /\ \A e \in response.body : e.user_id = response.req.user_id
        /\ \A e \in exercises :
               e.user_id = response.req.user_id => e \in response.body
        /\ response.body \subseteq exercises

\* C16's case: get_exercises has just returned a user's exercises, two or
\* more, while another user's exercises are stored too.
C16_Witness ==
    /\ response.op = "get_exercises"
    /\ Cardinality(response.body) >= 2
    /\ \E e \in exercises : e.user_id # response.req.user_id

C22_DeleteFrame ==
    [][ /\ (response'.op = "delete_exercise" /\ response'.status = 204) =>
              LET id == response'.req.exercise_id
              IN /\ exercises' = {e \in exercises : e.exercise_id # id}
                 /\ Cardinality(exercises') = Cardinality(exercises) - 1
                 /\ UNCHANGED <<users, default_exercises, routines,
                                routine_muscles>>
        /\ ( /\ response.op = "delete_exercise"
             /\ response.status = 204
             /\ response'.op = "delete_exercise"
             /\ response'.req = response.req )
           => ( /\ response'.status = 404
                /\ response'.detail = "Exercise not found"
                /\ exercises' = exercises )
      ]_vars

\* C22's case: a delete has just been answered 204 and its exercise_id is
\* stored no more, while the same user still holds another exercise and
\* another user holds one too.
C22_Witness ==
    /\ response.op = "delete_exercise"
    /\ response.status = 204
    /\ \A e \in exercises : e.exercise_id # response.req.exercise_id
    /\ \E e \in exercises : e.user_id = response.req.user_id
    /\ \E e \in exercises : e.user_id # response.req.user_id

\* C23: a register or create_exercise answered 201 keeps every exercise row
\* that was stored, and each row it adds (one for create_exercise, one per
\* catalog row for register) holds exercise_times_performed = 0 and
\* exercise_is_in_routine = true under an exercise_id that no stored row
\* and no other added row holds.
C23_NewExerciseRow ==
    [][ (response'.op \in {"register", "create_exercise"}
            /\ response'.status = 201) =>
          LET added == exercises' \ exercises
          IN /\ exercises \subseteq exercises'
             /\ Cardinality(added) =
                    IF response'.op = "create_exercise"
                    THEN 1 ELSE Cardinality(default_exercises)
             /\ \A new \in added :
                    /\ new.exercise_times_performed = 0
                    /\ new.exercise_is_in_routine = TRUE
                    /\ \A old \in exercises :
                           old.exercise_id # new.exercise_id
                    /\ \A other \in added :
                           other.exercise_id = new.exercise_id => other = new
      ]_vars

\* C23's case: register has just cloned two catalog rows or more for a new
\* user, each under its own exercise_id, while an exercise of an earlier
\* user is stored.
C23_Witness ==
    /\ response.op = "register"
    /\ response.status = 201
    /\ Cardinality(default_exercises) >= 2
    /\ \E u \in users :
           /\ u.user_id = user_seq
           /\ u.user_email = response.req.user_email
           /\ Cardinality({e \in exercises : e.user_id = u.user_id}) >= 2
    /\ \E e \in exercises : e.user_id # user_seq

\* The exercises stored for user uid
OwnedBy(uid) == {e \in exercises : e.user_id = uid}

\* C12: no reachable state holds a user row created by register without
\* the clones of the catalog rows stored for that user.
C12_RegisterAtomic ==
    \A u \in users :
        Cardinality(OwnedBy(u.user_id)) = Cardinality(default_exercises)

\* The register requests that have stored their user row and not yet the
\* clones
Inserted == {r \in inflight : r.stage = "inserted"}

\* C17: however register requests for one email interleave, at most one
\* user row holds that email, and clones are stored only by the requests
\* that stored a user row, once each: every exercise belongs to a stored
\* user, and as many exercises are stored as the catalog has rows, times
\* the users whose request has finished.
C17_ConcurrentRegister ==
    /\ \A u1 \in users : \A u2 \in users :
           u1.user_email = u2.user_email => u1.user_id = u2.user_id
    /\ \A e \in exercises : \E u \in users : u.user_id = e.user_id
    /\ Cardinality(exercises)
           = Cardinality(default_exercises)
               * (Cardinality(users) - Cardinality(Inserted))

\* C17's case: two requests for one email had both passed the existence
\* check; one stored the user and the clones of a catalog of two rows, the
\* other was refused at its INSERT, and no request is left in flight.
C17_Witness ==
    /\ response.op = "register"
    /\ response.status = 500
    /\ inflight = {}
    /\ Cardinality(users) = 1
    /\ \A u \in users : u.user_email = response.req.user_email
    /\ Cardinality(default_exercises) = 2
    /\ Cardinality(exercises) = 2

\* C13: a login is answered 200, with the user's user_id and user_email,
\* exactly when a user holds the email, the password is the one the stored
\* hash was made from, and the user is active; 401 exactly when no user
\* holds the email or the password is another one, active or not; 403
\* exactly when email and password are right and the user is inactive.
C13_LoginOutcome ==
    response.op = "login" =>
        LET right == {u \in users :
                         /\ u.user_email = response.req.user_email
                         /\ u.user_password
                                = hash_password(response.req.user_password)}
        IN /\ response.status \in {200, 401, 403}
           /\ response.status = 401 <=> right = {}
           /\ response.status = 403 <=>
                  (right # {} /\ \A u \in right : ~u.user_is_active)
           /\ response.status = 200 =>
                  \E u \in right :
                      /\ u.user_is_active
                      /\ response.body.user_id = u.user_id
                      /\ response.body.user_email = u.user_email

\* C13's case: a login with the right password for an inactive user has
\* just been answered 403, on a store that also holds an active user.
C13_Witness ==
    /\ response.op = "login"
    /\ response.status = 403
    /\ \E u \in users : u.user_is_active

\* C15: a session that get_db has opened is closed in the end, whether the
\* handler returns or raises.
C15_SessionReleased ==
    \A sid \in 1..MaxInflight : (sid \in sessions) ~> (sid \notin sessions)

\* C15's case: a handler has raised (401) and its request has ended with
\* no session left open.
C15_Witness ==
    /\ response.op = "login"
    /\ response.status = 401
    /\ inflight = {}
    /\ sessions = {}

(***************************************************************************)
(* Claims about the command-line prototype                                 *)
(***************************************************************************)

\* The step in which mark_workout_as_complete is answered 1 ("Yes")
Completion ==
    pc = "mark" /\ printed' = "Workout marked as complete."

\* The state right after such a step
Completed == printed = "Workout marked as complete."

\* The state right after suggest_workout_of_the_day has returned
Generated == pc = "mark"

\* The exercises held in a selection
SelectedIn(selection) == UNION {selection[g] : g \in DOMAIN selection}

\* The day after day d in a routine of n days
NextDay(d, n) == IF d < n THEN d + 1 ELSE 1

\* C4: a completion moves the current day (the head of user_schedule) from
\* day d to d + 1 when d < days_in_routine and to day 1 when
\* d = days_in_routine, and leaves the days in their cyclic order with
\* their muscle groups, so that days_in_routine completions in a row end on
\* the day they started from.
C4_CompletionAdvancesDay ==
    [][ Completion =>
          LET n == days_in_routine
              d == Head(user_schedule).day
          IN /\ Len(user_schedule') = n
             /\ Head(user_schedule').day = NextDay(d, n)
             /\ \A i \in 1..(n - 1) :
                    user_schedule'[i + 1].day
                        = NextDay(user_schedule'[i].day, n)
             /\ Range(user_schedule') = Range(user_schedule)
      ]_vars

\* C4's case: in a routine of three days, with the unit of measure chosen
\* and exercises selected, a completion has just taken the current day from
\* the last day back to day 1.
C4_Witness ==
    /\ Completed
    /\ days_in_routine = 3
    /\ Head(user_schedule).day = 1
    /\ unit_of_measure_selected # NULL
    /\ SelectedIn(today_selected_exercises) # {}

C6_SelectsLowestCounts ==
    (Generated /\ unit_of_measure_selected # NULL /\ user_schedule # <<>>) =>
        \A g \in Head(user_schedule).groups :
            (g \in DOMAIN exercises_dictionary
                    /\ exercises_dictionary[g] # <<>>) =>
                /\ g \in DOMAIN today_selected_exercises
                /\ today_selected_exercises[g]
                       \subseteq Range(exercises_dictionary[g])
                /\ Cardinality(today_selected_exercises[g])
                       = Min(PicksPerGroup, Len(exercises_dictionary[g]))
                /\ \A e \in today_selected_exercises[g] :
                       \A u \in Range(exercises_dictionary[g])
                                   \ today_selected_exercises[g] :
                           count[e] <= count[u]

\* C6's case: a generation for a day of two groups, one with more than
\* three exercises of which three of differing counts are selected and one
\* of a higher count is left out, the other with fewer than three
\* exercises, all selected.
C6_Witness ==
    /\ Generated
    /\ DOMAIN today_selected_exercises = {"shoulders", "biceps"}
    /\ Len(exercises_dictionary["biceps"]) < PicksPerGroup
    /\ today_selected_exercises["biceps"]
           = Range(exercises_dictionary["biceps"])
    /\ Cardinality(today_selected_exercises["shoulders"]) = PicksPerGroup
    /\ \E e1 \in today_selected_exercises["shoulders"] :
           \E e2 \in today_selected_exercises["shoulders"] :
               count[e1] < count[e2]
    /\ \E e \in today_selected_exercises["shoulders"] :
           \E u \in Range(exercises_dictionary["shoulders"])
                       \ today_selected_exercises["shoulders"] :
               count[e] < count[u]

\* C7: right after a generation, every group that has a selection is a
\* group of the current day, every selected exercise is an exercise of its
\* group, and nothing is selected when no workout was generated (no unit of
\* measure chosen, or no routine entered): no selection of an earlier
\* generation, for another day or group, is left.
C7_GenerationClearsSelection ==
    Generated =>
        /\ \A g \in DOMAIN today_selected_exercises :
               /\ user_schedule # <<>>
               /\ unit_of_measure_selected # NULL
               /\ g \in Head(user_schedule).groups
               /\ g \in DOMAIN exercises_dictionary
               /\ today_selected_exercises[g]
                      \subseteq Range(exercises_dictionary[g])

\* C7's case: a generation for a day that trains biceps alone, after an
\* earlier generation had selected shoulder exercises (one of them has been
\* completed since).
C7_Witness ==
    /\ Generated
    /\ user_schedule # <<>>
    /\ Head(user_schedule).groups = {"biceps"}
    /\ DOMAIN today_selected_exercises = {"biceps"}
    /\ \E e \in Range(exercises_dictionary["shoulders"]) :
           count[e] > InitialExercises[e].count

\* C8: a completion raises the count of every selected exercise by exactly
\* 1 and leaves the count of every other exercise as it was.
C8_CompletionIncrementsCounts ==
    [][ Completion =>
          \A e \in DOMAIN count :
              count'[e] = IF e \in SelectedIn(today_selected_exercises)
                          THEN count[e] + 1
                          ELSE count[e]
      ]_vars

\* C8's case: a completion has just counted exercises of two groups, one
\* of them for the second time, while other exercises were not selected.
C8_Witness ==
    /\ Completed
    /\ DOMAIN today_selected_exercises = {"shoulders", "biceps"}
    /\ \E e \in SelectedIn(today_selected_exercises) :
           count[e] = InitialExercises[e].count + 2
    /\ \E e \in DOMAIN count :
           /\ e \notin SelectedIn(today_selected_exercises)
           /\ count[e] = InitialExercises[e].count

\* C9: right after a completion, none of the exercises just completed is
\* still in today_selected_exercises.
C9_CompletionDeselects ==
    [][ Completion =>
          SelectedIn(today_selected_exercises)
              \cap SelectedIn(today_selected_exercises') = {}
      ]_vars

\* The exercises of the groups trained on some day of the routine
Scheduled ==
    UNION {Range(exercises_dictionary[g]) :
              g \in UNION {user_schedule[i].groups :
                              i \in 1..Len(user_schedule)}}

\* Exercise e is selected now, or was selected by an earlier generation:
\* in these cycles every generation is completed, and a completion counts
\* the selected exercises and no other
HasBeenSelected(e) ==
    \/ e \in SelectedIn(today_selected_exercises)
    \/ count[e] > InitialExercises[e].count

\* C18: when workouts are generated and completed again and again on a
\* routine and an exercise set that stay as they are, every exercise of a
\* muscle group trained on some day of the routine is selected in the end:
\* a time comes by which each of them has been selected.
C18_NoStarvation ==
    <>(\A e \in Scheduled : HasBeenSelected(e))

\* C18's case: an exercise that was not selected on the first day its group
\* was trained (its count is still the initial one while others of the
\* group have been completed) is selected now.
C18_Witness ==
    /\ Generated
    /\ \E g \in DOMAIN today_selected_exercises :
           \E e \in today_selected_exercises[g] :
               /\ count[e] = InitialExercises[e].count
               /\ Len(exercises_dictionary[g]) > PicksPerGroup
               /\ \E x \in Range(exercises_dictionary[g]) :
                      count[x] > InitialExercises[x].count

\* C19: a generation leaves the routine, the current day and every count
\* as they were (and the exercise lists and the unit of measure), so that
\* a generation after it, with no completion between, is for the same day
\* and the same muscle groups.
C19_GenerationFrame ==
    [][ (pc = "menu" /\ pc' = "mark") =>
          /\ user_schedule' = user_schedule
          /\ days_in_routine' = days_in_routine
          /\ count' = count
          /\ exercises_dictionary' = exercises_dictionary
          /\ unit_of_measure_selected' = unit_of_measure_selected
      ]_vars

\* C19's case: a workout has just been generated for the second day of a
\* routine, after exercises have been completed.
C19_Witness ==
    /\ Generated
    /\ SelectedIn(today_selected_exercises) # {}
    /\ Head(user_schedule).day = 2
    /\ \E e \in DOMAIN count : count[e] > InitialExercises[e].count

\* C24: no times-performed count is ever negative, neither
\* exercise_times_performed of a stored exercise row nor the count of an
\* Exercise object of the prototype; and in every step of register, the
\* exercise routes, generation and completion, the count of an exercise that
\* is there before and after is either unchanged or raised by exactly 1, the
\* latter in a completion step only.
C24_CountNeverDecreases ==
    [][ /\ \A e \in DOMAIN count :
              /\ count[e] >= 0
              /\ count'[e] >= 0
              /\ \/ count'[e] = count[e]
                 \/ count'[e] = count[e] + 1 /\ Completion
        /\ \A old \in exercises :
              /\ old.exercise_times_performed >= 0
              /\ \A new \in exercises' :
                     new.exercise_id = old.exercise_id =>
                         \/ new.exercise_times_performed
                                = old.exercise_times_performed
                         \/ /\ new.exercise_times_performed
                                   = old.exercise_times_performed + 1
                            /\ Completion
        /\ \A new \in exercises' : new.exercise_times_performed >= 0
      ]_vars

\* C24's case: a completion has raised the count of an Exercise object, the
\* next workout has been generated since, and an update_exercise has just
\* rewritten a stored row, whose count is still 0.
C24_Witness ==
    /\ \E e \in DOMAIN count : count[e] > InitialExercises[e].count
    /\ Generated
    /\ response.op = "update_exercise"
    /\ response.status = 200
    /\ \E e \in exercises :
           /\ e.exercise_id = response.req.exercise_id
           /\ e.exercise_times_performed = 0

====
